---- MODULE Spec2Model ----
(***************************************************************************)
(* Model of the CCTP bridge session orchestrator                           *)
(* (packages/cctp-bridge/src/orchestrator/BridgeOrchestrator.ts), its      *)
(* session store (StorageRepository) and the chain adapter (CctpBridge).   *)
(*                                                                         *)
(* One session is modelled.  JavaScript runs one synchronous block at a    *)
(* time; every action below is one such block, from the resumption of an   *)
(* `await` to the next suspension.  A store save is issued without being   *)
(* awaited (updateState), so saves in flight are kept in `pending` and     *)
(* land, fail or are lost by a crash later, in any order.                  *)
(***************************************************************************)
EXTENDS Integers, FiniteSets, Sequences, TLC

VARIABLES
    alive,      \* an orchestrator instance exists in the running process
    origin,     \* the factory that built the instance: "create" or "resume"
    state,      \* BridgeOrchestrator.state, the in-memory BridgeState
    notified,   \* the last state copy handed to the listeners by notify()
    store,      \* the record the Session Store holds for the session, or NoRecord
    pending,    \* saves issued by updateState that have not completed yet
    procs,      \* the execute() invocations on the instance, one per slot
    cancelPc,   \* position of a cancel() invocation
    chain,      \* the chains: allowance and the transactions submitted so far
    clock,      \* Date.now()
    used,       \* cancel() calls and overlapping execute() calls made so far
    listeners,  \* this.listeners: the subscribed callbacks, in subscription order
    delivery,   \* the last notification: who was subscribed, who was invoked
    repo        \* the two Session Store implementations and their last answer

vars == <<alive, origin, state, notified, store, pending, procs, cancelPc, chain, clock,
          used, listeners, delivery, repo>>

(***************************************************************************)
(* Bounds of the model.                                                    *)
(***************************************************************************)
MaxPending == 2      \* saves that may be in flight at once
MaxSubmits == 2      \* submissions counted per kind of transaction (saturating)
MaxClock == 1        \* last instant of Date.now()
MaxCancels == 1      \* cancel() calls on one instance
MaxOverlaps == 1     \* execute() calls made while another one is running
MaxListeners == 2    \* listeners subscribed at once

\* parseUnits(params.amount, 6) of the session.
Amount == 1

\* The allowance when the session starts: none, or more than the amount.
InitialAllowances == {0, Amount + 1}

Min(a, b) == IF a < b THEN a ELSE b

(***************************************************************************)
(* Types (orchestrator/types.ts).                                          *)
(***************************************************************************)
BridgeStep == <<"IDLE", "APPROVED", "BURNED", "ATTESTED", "COMPLETED">>

Steps == {BridgeStep[k] : k \in 1..Len(BridgeStep)}

\* Position of a step in the enum order.
Rank(s) == CHOOSE k \in 1..Len(BridgeStep) : BridgeStep[k] = s

BridgeMode == {"standard", "smart-account"}

Null == "null"       \* error: null

NoHash == 0          \* an optional artifact field that is undefined

NoRecord == [sessionId |-> "none"]

Slots == {"a", "b"}

\* generateSessionId(): one opaque identifier, one session in the model.
generateSessionId == "s1"

(***************************************************************************)
(* getErrorMessage: the message recorded for a thrown value.               *)
(***************************************************************************)
Thrown == {"Error", "other"}

getErrorMessage(thrown, message) ==
    IF thrown = "Error" THEN message
    ELSE IF thrown = "string" THEN message
    ELSE "An unknown error occurred"

(***************************************************************************)
(* create(): the initial state, saved (awaited) before create() returns.   *)
(***************************************************************************)
InitialState(mode, now) ==
    [ step |-> "IDLE",
      mode |-> mode,
      isLoading |-> FALSE,
      error |-> Null,
      sessionId |-> generateSessionId,
      amount |-> Amount,
      destinationAddress |-> "0xabc",
      usePaymaster |-> TRUE,
      approvalTxHash |-> NoHash,
      burnTxHash |-> NoHash,
      userOpHash |-> NoHash,
      userOpReceiptTxHash |-> NoHash,
      attestation |-> NoHash,
      mintTxHash |-> NoHash,
      createdAt |-> now,
      updatedAt |-> now ]

IdleProc(handler, outcome) ==
    [ pc |-> "idle", handler |-> handler, op |-> "none", arg |-> NoHash,
      currentStep |-> "IDLE", transitions |-> 0, outcome |-> outcome ]

(***************************************************************************)
(* Observers.  A listener is named after what its callback does with the   *)
(* snapshot it is given.                                                   *)
(***************************************************************************)
Listener == {"plain", "throws", "unsubscribes", "writes"}

\* What a callback's write leaves in the nested attestation object.
Tampered == -1

NoDelivery == [before |-> <<>>, received |-> <<>>, threw |-> FALSE]

\* const index = this.listeners.indexOf(listener);
\* if (index > -1) this.listeners.splice(index, 1);
Splice(ls, l) ==
    IF \E k \in 1..Len(ls) : ls[k] = l
    THEN LET index == CHOOSE k \in 1..Len(ls) :
                         ls[k] = l /\ \A j \in 1..(k - 1) : ls[j] # l
         IN [j \in 1..(Len(ls) - 1) |-> IF j < index THEN ls[j] ELSE ls[j + 1]]
    ELSE ls

\* The loop of notify(): for (const listener of this.listeners), over the
\* live array, each call inside try/catch.  The snapshot handed over is
\* Object.freeze({ ...this.state }): its top level cannot be written, the
\* attestation object it refers to is the live one.
RECURSIVE Deliver(_, _, _, _, _)
Deliver(ls, k, received, attestation, threw) ==
    IF k > Len(ls)
    THEN [listeners |-> ls, received |-> received, attestation |-> attestation,
          threw |-> threw]
    ELSE LET listener == ls[k] IN
         Deliver(IF listener = "unsubscribes" THEN Splice(ls, listener) ELSE ls,
                 k + 1,
                 Append(received, listener),
                 IF listener = "writes" /\ attestation # NoHash
                 THEN Tampered ELSE attestation,
                 threw \/ listener = "throws")

\* Mutant: no try/catch in the loop, a throwing listener ends it.
RECURSIVE DeliverUntilThrow(_, _, _, _)
DeliverUntilThrow(ls, k, received, attestation) ==
    IF k > Len(ls)
    THEN [listeners |-> ls, received |-> received, attestation |-> attestation,
          threw |-> FALSE]
    ELSE LET listener == ls[k] IN
         IF listener = "throws"
         THEN [listeners |-> ls, received |-> Append(received, listener),
               attestation |-> attestation, threw |-> TRUE]
         ELSE DeliverUntilThrow(
                 IF listener = "unsubscribes" THEN Splice(ls, listener) ELSE ls,
                 k + 1,
                 Append(received, listener),
                 IF listener = "writes" /\ attestation # NoHash
                 THEN Tampered ELSE attestation)

notifyUnguarded(ls, attestation) == DeliverUntilThrow(ls, 1, <<>>, attestation)

notify(ls, attestation) == Deliver(ls, 1, <<>>, attestation, FALSE)

(***************************************************************************)
(* The Session Store implementations: MemoryStorageRepository over a Map,  *)
(* LocalStorageRepository over window.localStorage.                        *)
(***************************************************************************)
Impl == {"MemoryStorageRepository", "LocalStorageRepository"}

SessionIds == {generateSessionId, "s2"}

\* The records saved: a new session, and one with optional fields set.
RepoStates ==
    { InitialState("standard", 0),
      [InitialState("smart-account", 0) EXCEPT !.step = "BURNED", !.userOpHash = 1,
                                               !.userOpReceiptTxHash = 1] }

Fields == DOMAIN InitialState("standard", 0)

\* The optional properties of BridgeState: undefined (NoHash) until set.
OptionalFields ==
    {"approvalTxHash", "burnTxHash", "userOpHash", "userOpReceiptTxHash",
     "attestation", "mintTxHash"}

\* JSON.stringify leaves out the properties whose value is undefined.
Stringify(s) ==
    [json |-> [f \in {g \in DOMAIN s : ~(g \in OptionalFields /\ s[g] = NoHash)} |-> s[f]]]

\* JSON.parse: the properties of the text; any other property reads undefined.
Parse(serialized) ==
    [f \in Fields |-> IF f \in DOMAIN serialized.json THEN serialized.json[f] ELSE NoHash]

\* Map.set / localStorage.setItem, Map.delete / localStorage.removeItem.
setItem(items, key, value) ==
    [k \in DOMAIN items \cup {key} |-> IF k = key THEN value ELSE items[k]]

removeItem(items, key) == [k \in DOMAIN items \ {key} |-> items[k]]

prefix == "cctp-bridge-session-"

\* Mutant: every session under one key.
getKeyShared(sessionId) == <<prefix, "">>

\* getKey: prefix + sessionId, kept as a pair.
getKey(sessionId) == <<prefix, sessionId>>

\* What is wrong with window.localStorage during a call: nothing; no window;
\* setItem, getItem or removeItem throws; setItem throws for the record only
\* (quota).
Faults == {"none", "window", "setItem", "getItem", "removeItem", "quota"}

\* isAvailable: a window, and the test key can be set and removed.
isAvailable(fault) == fault \notin {"window", "setItem", "removeItem"}

\* LocalStorageRepository.save: skipped when unavailable; rethrows.
LocalSave(items, sessionId, s, fault) ==
    IF ~isAvailable(fault) THEN [items |-> items, outcome |-> "ok"]
    ELSE IF fault = "quota" THEN [items |-> items, outcome |-> "failed"]
    ELSE [items |-> setItem(items, getKey(sessionId), Stringify(s)), outcome |-> "ok"]

\* LocalStorageRepository.load: null when unavailable, when there is no
\* item, and when getItem or JSON.parse throws.
LocalLoad(items, sessionId, fault) ==
    IF ~isAvailable(fault) THEN [state |-> NoRecord, outcome |-> "ok"]
    ELSE IF fault = "getItem" THEN [state |-> NoRecord, outcome |-> "ok"]
    ELSE IF getKey(sessionId) \notin DOMAIN items THEN [state |-> NoRecord, outcome |-> "ok"]
    ELSE [state |-> Parse(items[getKey(sessionId)]), outcome |-> "ok"]

\* LocalStorageRepository.remove: returns when unavailable; a throwing
\* removeItem is caught and logged.
LocalRemove(items, sessionId, fault) ==
    IF ~isAvailable(fault) THEN [items |-> items, outcome |-> "ok"]
    ELSE [items |-> removeItem(items, getKey(sessionId)), outcome |-> "ok"]

\* LocalStorageRepository.listSessions: the keys that start with the prefix,
\* without it.
LocalListSessions(items, fault) ==
    IF ~isAvailable(fault) THEN {}
    ELSE {key[2] : key \in {k \in DOMAIN items : k[1] = prefix}}

\* MemoryStorageRepository.
MemorySave(items, sessionId, s) == [items |-> setItem(items, sessionId, s), outcome |-> "ok"]

MemoryLoad(items, sessionId) ==
    [state |-> IF sessionId \in DOMAIN items THEN items[sessionId] ELSE NoRecord,
     outcome |-> "ok"]

MemoryRemove(items, sessionId) == [items |-> removeItem(items, sessionId), outcome |-> "ok"]

MemoryListSessions(items) == DOMAIN items

\* What the caller got from the last call.
Answer(impl, op, sessionId, fault, outcome, s, sessions) ==
    [impl |-> impl, op |-> op, sessionId |-> sessionId, fault |-> fault,
     outcome |-> outcome, state |-> s, sessions |-> sessions]

\* Two new repositories; localStorage holds an entry of another application.
\* written is the last record passed to save() under each id and not removed
\* since.
NewRepositories ==
    [ items |-> [impl \in Impl |->
                   IF impl = "MemoryStorageRepository"
                   THEN [k \in {} |-> NoRecord]
                   ELSE [k \in {<<"", "theme">>} |-> Stringify(NoRecord)]],
      written |-> [impl \in Impl |-> [id \in SessionIds |-> NoRecord]],
      result |-> Answer("MemoryStorageRepository", "none", generateSessionId, "none",
                        "ok", NoRecord, {}) ]

Init ==
    /\ alive = TRUE
    /\ origin = "create"
    /\ \E mode \in BridgeMode : state = InitialState(mode, 0)
    /\ notified = state
    /\ store = state
    /\ pending = {}
    /\ procs = [i \in Slots |-> IdleProc("none", "none")]
    /\ cancelPc = "idle"
    /\ \E a \in InitialAllowances :
          chain = [allowance |-> a, approvals |-> 0, burns |-> 0, mints |-> 0]
    /\ clock = 0
    /\ used = [cancels |-> 0, overlaps |-> 0]
    /\ listeners = <<>>
    /\ delivery = NoDelivery
    /\ repo = NewRepositories

(***************************************************************************)
(* updateState(partial): merge, notify, then issue the save without        *)
(* waiting for it.  At most MaxPending saves are in flight: when one more   *)
(* is issued, one of those in flight completes first.                      *)
(***************************************************************************)
\* Date.now() after an adapter operation was awaited: the network round trip
\* takes time, the synchronous blocks and the store do not.
Elapsed == Min(clock + 1, MaxClock)

\* Mutant: the merge stamps createdAt as it stamps updatedAt.
MergeRestamps(s, partial, now) ==
    [f \in DOMAIN s |->
        IF f \in {"updatedAt", "createdAt"} THEN now
        ELSE IF f \in DOMAIN partial THEN partial[f]
        ELSE s[f]]

\* { ...this.state, ...partial, updatedAt: Date.now() }
Merge(s, partial, now) ==
    [f \in DOMAIN s |->
        IF f = "updatedAt" THEN now
        ELSE IF f \in DOMAIN partial THEN partial[f]
        ELSE s[f]]

UpdateStateOver(partial, base) ==
    LET merged == Merge(state, partial, clock')
        told == notify(listeners, merged.attestation)
        ns == [merged EXCEPT !.attestation = told.attestation]
    IN
    /\ state' = ns
    /\ notified' = merged
    /\ listeners' = told.listeners
    /\ delivery' = [before |-> listeners, received |-> told.received,
                    threw |-> told.threw]
    /\ repo' = repo
    /\ IF ns \in pending \/ Cardinality(pending) < MaxPending
       THEN pending' = pending \cup {ns} /\ store' = base
       ELSE \E r \in pending : pending' = (pending \ {r}) \cup {ns} /\ store' = r

updateState(partial) == UpdateStateOver(partial, store)

setLoading(isLoading) ==
    updateState([isLoading |-> isLoading,
                 error |-> IF isLoading THEN Null ELSE state.error])

\* Mutant: the error is recorded but isLoading is left as it was.
setErrorKeepsLoading(error) == updateState([error |-> error])

setError(error) == updateState([error |-> error, isLoading |-> FALSE])

\* Mutant: the ATTESTED entry of the smart-account table is the direct mint.
getFlowMapDirectMint(mode) ==
    IF mode = "standard"
    THEN [IDLE |-> "stepApprove", APPROVED |-> "stepBurn",
          BURNED |-> "stepAttest", ATTESTED |-> "stepMint"]
    ELSE [IDLE |-> "stepApproveAndBurn", BURNED |-> "stepAttest",
          ATTESTED |-> "stepMint"]

\* Mutant: the APPROVED entry of the standard table is the approve handler.
getFlowMapApprovesAgain(mode) ==
    IF mode = "standard"
    THEN [IDLE |-> "stepApprove", APPROVED |-> "stepApprove",
          BURNED |-> "stepAttest", ATTESTED |-> "stepMint"]
    ELSE [IDLE |-> "stepApproveAndBurn", BURNED |-> "stepAttest",
          ATTESTED |-> "stepMintViaRelayer"]

(***************************************************************************)
(* getFlowMap: the handler of each step, per mode.                          *)
(***************************************************************************)
getFlowMap(mode) ==
    IF mode = "standard"
    THEN [ IDLE |-> "stepApprove",
           APPROVED |-> "stepBurn",
           BURNED |-> "stepAttest",
           ATTESTED |-> "stepMint" ]
    ELSE [ IDLE |-> "stepApproveAndBurn",
           BURNED |-> "stepAttest",
           ATTESTED |-> "stepMintViaRelayer" ]

\* The adapter operation a handler invokes first.
FirstOp(handler) ==
    CASE handler = "stepApprove" -> "approveUSDC"
      [] handler = "stepBurn" -> "burnUSDC"
      [] handler = "stepAttest" -> "retrieveAttestation"
      [] handler = "stepMint" -> "mintUSDC"
      [] handler = "stepApproveAndBurn" -> "approveAndBurnUSDCUsingSmartAccount"
      [] handler = "stepMintViaRelayer" -> "mintUSDCViaRelayer"

(***************************************************************************)
(* The ways an execute() invocation ends.                                  *)
(***************************************************************************)
\* The promise resolves: the slot is free again and remembers its last handler.
Return(i, outcome) ==
    procs' = [procs EXCEPT ![i] = IdleProc(@.handler, outcome)]

\* Mutant: no try/catch around executeFlow, the promise rejects.
Uncaught(i, handler, thrown, message) ==
    /\ procs' = [procs EXCEPT ![i] = IdleProc(handler, "rejected")]
    /\ UNCHANGED <<state, notified, store, pending, listeners, delivery, repo>>

\* Mutant: the catch records the error and runs the handler again.
CaughtThenRetry(i, handler, thrown, message) ==
    /\ setError(getErrorMessage(thrown, message))
    /\ procs' = [procs EXCEPT ![i].pc = "call", ![i].handler = handler,
                              ![i].op = FirstOp(handler), ![i].arg = NoHash,
                              ![i].outcome = "caught"]

\* catch (error) of execute(): setError(getErrorMessage(error)), then resolve.
Caught(i, handler, thrown, message) ==
    /\ setError(getErrorMessage(thrown, message))
    /\ procs' = [procs EXCEPT ![i] = IdleProc(handler, "caught")]

(***************************************************************************)
(* execute(), up to its first suspension.                                  *)
(***************************************************************************)
\* Mutant: the error is cleared before the guard is consulted.
ExecuteSkippedAfterClear(i) ==
    /\ updateState([error |-> Null])
    /\ procs' = [procs EXCEPT ![i].outcome = "skipped"]

\* if (this.state.isLoading) return;
ExecuteSkipped(i) ==
    /\ procs' = [procs EXCEPT ![i].outcome = "skipped"]
    /\ UNCHANGED <<state, notified, store, pending, listeners, delivery, repo>>

\* await this.updateState({ error: null });
ExecuteStarted(i) ==
    /\ updateState([error |-> Null])
    /\ procs' = [procs EXCEPT ![i].pc = "flow"]

execute(i) ==
    /\ alive
    /\ procs[i].pc = "idle"
    /\ i = "a" \/ procs["a"].pc # "idle"
    /\ IF \E j \in Slots : procs[j].pc # "idle"
       THEN /\ used.overlaps < MaxOverlaps
            /\ used' = [used EXCEPT !.overlaps = @ + 1]
       ELSE used' = used
    /\ clock' = clock
    /\ IF state.isLoading THEN ExecuteSkipped(i) ELSE ExecuteStarted(i)
    /\ UNCHANGED <<alive, origin, cancelPc, chain>>

(***************************************************************************)
(* executeFlow: one pass of the loop, from the resumption after            *)
(* `await handler()` (or the entry) to the handler's first suspension.     *)
(***************************************************************************)
\* After the loop: cleanup() when COMPLETED, which awaits storage.remove.
LoopExit(i) ==
    /\ IF state.step = "COMPLETED"
       THEN procs' = [procs EXCEPT ![i].pc = "cleanup"]
       ELSE Return(i, "ok")
    /\ UNCHANGED <<state, notified, store, pending, listeners, delivery, repo>>

\* The handler up to `await this.setLoading(true)`; the two mint handlers
\* check the attestation first.
HandlerStart(i, handler, transitions) ==
    IF handler \in {"stepMint", "stepMintViaRelayer"} /\ state.attestation = NoHash
    THEN Caught(i, handler, "Error", "No attestation available for minting")
    ELSE /\ setLoading(TRUE)
         /\ procs' = [procs EXCEPT ![i] =
                [ pc |-> "call", handler |-> handler, op |-> FirstOp(handler),
                  arg |-> NoHash, currentStep |-> state.step,
                  transitions |-> transitions, outcome |-> @.outcome ]]

\* Mutant: a loop without the bound and without the check that the step
\* advanced.
executeFlowUnbounded(i) ==
    /\ procs[i].pc \in {"flow", "after"}
    /\ clock' = clock
    /\ LET p == procs[i]
           flow == getFlowMap(state.mode)
           transitions == IF p.pc = "after" THEN p.transitions + 1 ELSE 0
       IN IF state.step \notin DOMAIN flow
          THEN LoopExit(i)
          ELSE HandlerStart(i, flow[state.step], transitions)
    /\ UNCHANGED <<alive, origin, cancelPc, chain, used>>

executeFlow(i) ==
    /\ procs[i].pc \in {"flow", "after"}
    /\ clock' = clock
    /\ LET p == procs[i]
           flow == getFlowMap(state.mode)
           maxTransitions == Cardinality(DOMAIN flow) + 1
           stalled == p.pc = "after" /\ state.step = p.currentStep
           transitions == IF p.pc = "after" THEN p.transitions + 1 ELSE 0
       IN IF stalled \/ transitions >= maxTransitions \/ state.step \notin DOMAIN flow
          THEN LoopExit(i)
          ELSE HandlerStart(i, flow[state.step], transitions)
    /\ UNCHANGED <<alive, origin, cancelPc, chain, used>>

(***************************************************************************)
(* The handler resumes after setLoading(true) (or after the userOpHash     *)
(* update) and invokes its adapter operation.                              *)
(***************************************************************************)
\* Mutant: the attest handler takes burnTxHash in both modes.
HandlerCallBurnTxHash(i) ==
    /\ procs[i].pc = "call"
    /\ clock' = clock
    /\ LET p == procs[i]
           txHash == state.burnTxHash
       IN CASE p.op = "retrieveAttestation" ->
                 IF txHash = NoHash
                 THEN Caught(i, p.handler, "Error",
                             "No burn transaction hash available for attestation")
                 ELSE /\ procs' = [procs EXCEPT ![i].pc = "adapter", ![i].arg = txHash]
                      /\ UNCHANGED <<state, notified, store, pending, listeners, delivery, repo>>
            [] p.op \in {"mintUSDC", "mintUSDCViaRelayer"} ->
                 /\ procs' = [procs EXCEPT ![i].pc = "adapter",
                                           ![i].arg = state.attestation]
                 /\ UNCHANGED <<state, notified, store, pending, listeners, delivery, repo>>
            [] OTHER ->
                 /\ procs' = [procs EXCEPT ![i].pc = "adapter"]
                 /\ UNCHANGED <<state, notified, store, pending, listeners, delivery, repo>>
    /\ UNCHANGED <<alive, origin, cancelPc, chain, used>>

HandlerCall(i) ==
    /\ procs[i].pc = "call"
    /\ clock' = clock
    /\ LET p == procs[i]
           txHash == IF state.mode = "smart-account"
                     THEN state.userOpReceiptTxHash
                     ELSE state.burnTxHash
       IN CASE p.op = "retrieveAttestation" ->
                 IF txHash = NoHash
                 THEN Caught(i, p.handler, "Error",
                             "No burn transaction hash available for attestation")
                 ELSE /\ procs' = [procs EXCEPT ![i].pc = "adapter", ![i].arg = txHash]
                      /\ UNCHANGED <<state, notified, store, pending, listeners, delivery, repo>>
            [] p.op \in {"mintUSDC", "mintUSDCViaRelayer"} ->
                 /\ procs' = [procs EXCEPT ![i].pc = "adapter",
                                           ![i].arg = state.attestation]
                 /\ UNCHANGED <<state, notified, store, pending, listeners, delivery, repo>>
            [] OTHER ->
                 /\ procs' = [procs EXCEPT ![i].pc = "adapter"]
                 /\ UNCHANGED <<state, notified, store, pending, listeners, delivery, repo>>
    /\ UNCHANGED <<alive, origin, cancelPc, chain, used>>

(***************************************************************************)
(* The chain adapter (CctpBridge).  A submission that succeeds returns the *)
(* number of the transaction among those of its kind as its hash.          *)
(***************************************************************************)
\* approveUSDC: no transaction when the allowance exceeds the amount.
approveUSDC(c, amount) ==
    IF c.allowance > amount
    THEN [chain |-> c, transactionHash |-> NoHash]
    ELSE LET n == Min(c.approvals + 1, MaxSubmits) IN
         [chain |-> [c EXCEPT !.allowance = amount, !.approvals = n],
          transactionHash |-> n]

\* burnUSDC: depositForBurn spends the allowance.
burnUSDC(c, amount) ==
    LET n == Min(c.burns + 1, MaxSubmits) IN
    [chain |-> [c EXCEPT !.allowance = @ - amount, !.burns = n],
     transactionHash |-> n]

\* approveAndBurnUSDCUsingSmartAccount: approve (when the allowance does not
\* exceed the amount) and depositForBurn in one user operation.
approveAndBurnUSDCUsingSmartAccount(c, amount) ==
    LET n == Min(c.burns + 1, MaxSubmits)
        allowance == IF c.allowance > amount THEN c.allowance ELSE amount
    IN [chain |-> [c EXCEPT !.allowance = allowance - amount, !.burns = n],
        userOperation |-> n]

\* mintUSDC and the relayer's mint: receiveMessage on the destination chain.
mintUSDC(c) ==
    LET n == Min(c.mints + 1, MaxSubmits) IN
    [chain |-> [c EXCEPT !.mints = n], transactionHash |-> n]

\* mintUSDCViaRelayer when the relayer's response is not ok: success false,
\* with the relayer's error and code or the adapter's defaults.
mintUSDCViaRelayerRefused(error, code) ==
    [success |-> FALSE,
     error |-> IF error # "" THEN error ELSE "Unknown error from relayer",
     code |-> IF code # "" THEN code ELSE "UNKNOWN_ERROR"]

(***************************************************************************)
(* The adapter operation a handler awaits returns: the rest of the handler.*)
(***************************************************************************)
\* The handler has returned; executeFlow resumes after `await handler()`.
HandlerDone(i) == procs' = [procs EXCEPT ![i].pc = "after", ![i].op = "none",
                                         ![i].arg = NoHash]

\* Mutant: the approve handler's last update does not clear isLoading.
stepApproveKeepsLoading(i) ==
    LET result == approveUSDC(chain, state.amount) IN
    /\ chain' = result.chain
    /\ IF result.transactionHash # NoHash
       THEN updateState([step |-> "APPROVED", approvalTxHash |-> result.transactionHash])
       ELSE updateState([step |-> "APPROVED"])
    /\ HandlerDone(i)

stepApprove(i) ==
    LET result == approveUSDC(chain, state.amount) IN
    /\ chain' = result.chain
    /\ IF result.transactionHash # NoHash
       THEN updateState([step |-> "APPROVED", isLoading |-> FALSE,
                         approvalTxHash |-> result.transactionHash])
       ELSE updateState([step |-> "APPROVED", isLoading |-> FALSE])
    /\ HandlerDone(i)

stepBurn(i) ==
    LET result == burnUSDC(chain, state.amount) IN
    /\ chain.allowance >= state.amount
    /\ chain' = result.chain
    /\ updateState([step |-> "BURNED", burnTxHash |-> result.transactionHash,
                    isLoading |-> FALSE])
    /\ HandlerDone(i)

\* The attestation service certifies the burn transaction it was asked about.
stepAttest(i) ==
    /\ chain' = chain
    /\ updateState([step |-> "ATTESTED", attestation |-> procs[i].arg,
                    isLoading |-> FALSE])
    /\ HandlerDone(i)

\* Mutant: the mint handler advances the step in an update without the hash.
stepMintWithoutHash(i) ==
    LET result == mintUSDC(chain) IN
    /\ chain' = result.chain
    /\ updateState([step |-> "COMPLETED", isLoading |-> FALSE])
    /\ HandlerDone(i)

\* stepMint and, when the relayer reports success, stepMintViaRelayer.
stepMint(i) ==
    LET result == mintUSDC(chain) IN
    /\ chain' = result.chain
    /\ updateState([step |-> "COMPLETED", mintTxHash |-> result.transactionHash,
                    isLoading |-> FALSE])
    /\ HandlerDone(i)

\* Mutant: the hash of the user operation is not recorded on its own.
stepApproveAndBurnUnrecorded(i) ==
    LET result == approveAndBurnUSDCUsingSmartAccount(chain, state.amount) IN
    /\ chain' = result.chain
    /\ UNCHANGED <<state, notified, store, pending, listeners, delivery, repo>>
    /\ procs' = [procs EXCEPT ![i].pc = "call", ![i].op = "waitForUserOperation",
                              ![i].arg = result.userOperation]

\* stepApproveAndBurn, first half: the user operation is submitted, its hash
\* recorded, and the handler goes on to wait for the receipt.
stepApproveAndBurnSubmitted(i) ==
    LET result == approveAndBurnUSDCUsingSmartAccount(chain, state.amount) IN
    /\ chain' = result.chain
    /\ updateState([userOpHash |-> result.userOperation])
    /\ procs' = [procs EXCEPT ![i].pc = "call", ![i].op = "waitForUserOperation",
                              ![i].arg = result.userOperation]

\* stepApproveAndBurn, second half: the receipt of the awaited user operation.
stepApproveAndBurnConfirmed(i) ==
    /\ chain' = chain
    /\ updateState([step |-> "BURNED", userOpReceiptTxHash |-> procs[i].arg,
                    isLoading |-> FALSE])
    /\ HandlerDone(i)

AdapterReturns(i) ==
    /\ procs[i].pc = "adapter"
    /\ clock' = Elapsed
    /\ LET op == procs[i].op IN
       CASE op = "approveUSDC" -> stepApprove(i)
         [] op = "burnUSDC" -> stepBurn(i)
         [] op = "retrieveAttestation" -> stepAttest(i)
         [] op \in {"mintUSDC", "mintUSDCViaRelayer"} -> stepMint(i)
         [] op = "approveAndBurnUSDCUsingSmartAccount" -> stepApproveAndBurnSubmitted(i)
         [] op = "waitForUserOperation" -> stepApproveAndBurnConfirmed(i)
    /\ UNCHANGED <<alive, origin, cancelPc, used>>

\* The adapter operation throws (any operation, any thrown value).
AdapterThrows(i) ==
    /\ procs[i].pc = "adapter"
    /\ clock' = Elapsed
    /\ \E thrown \in Thrown : Caught(i, procs[i].handler, thrown, "adapter failed")
    /\ UNCHANGED <<alive, origin, cancelPc, chain, used>>

\* What the relayer may answer as its error and as its code.
RelayerErrors == {"", "MINT_FAILED"}

RelayerCodes == {"", "E_MINT"}

\* Mutant: stepMintViaRelayer does not look at success.
RelayerRefusalIgnored(i) ==
    /\ procs[i].pc = "adapter"
    /\ procs[i].op = "mintUSDCViaRelayer"
    /\ clock' = Elapsed
    /\ updateState([step |-> "COMPLETED", mintTxHash |-> NoHash, isLoading |-> FALSE])
    /\ HandlerDone(i)
    /\ UNCHANGED <<alive, origin, cancelPc, chain, used>>

\* mintUSDCViaRelayer returns success: false: the handler throws
\* new Error(result.error || "Relayer returned an error").
RelayerRefuses(i) ==
    /\ procs[i].pc = "adapter"
    /\ procs[i].op = "mintUSDCViaRelayer"
    /\ clock' = Elapsed
    /\ \E error \in RelayerErrors, code \in RelayerCodes :
          LET result == mintUSDCViaRelayerRefused(error, code) IN
          Caught(i, procs[i].handler, "Error",
                 IF result.error # "" THEN result.error ELSE "Relayer returned an error")
    /\ UNCHANGED <<alive, origin, cancelPc, chain, used>>

\* The mint operation throws, directly submitted or through the relayer.
MintThrows(i) ==
    /\ procs[i].op \in {"mintUSDC", "mintUSDCViaRelayer"}
    /\ AdapterThrows(i)

(***************************************************************************)
(* cleanup(): storage.remove, awaited inside executeFlow.                  *)
(***************************************************************************)
CleanupReturns(i) ==
    /\ procs[i].pc = "cleanup"
    /\ store' = NoRecord
    /\ Return(i, "ok")
    /\ UNCHANGED <<alive, origin, state, notified, pending, cancelPc, chain, clock, used,
                   listeners, delivery, repo>>

CleanupThrows(i) ==
    /\ procs[i].pc = "cleanup"
    /\ clock' = clock
    /\ \E thrown \in Thrown : Caught(i, procs[i].handler, thrown, "remove failed")
    /\ UNCHANGED <<alive, origin, cancelPc, chain, used>>

(***************************************************************************)
(* The Session Store completes the saves in flight, in any order.          *)
(***************************************************************************)
SaveLands ==
    /\ \E r \in pending : store' = r /\ pending' = pending \ {r}
    /\ UNCHANGED <<alive, origin, state, notified, procs, cancelPc, chain, clock, used,
                   listeners, delivery, repo>>

\* Mutant: the rejected save is written to the error field.
SaveFailsSurfaces ==
    /\ \E r \in pending : pending' = pending \ {r}
    /\ state' = [state EXCEPT !.error = "save failed"]
    /\ notified' = state'
    /\ UNCHANGED <<alive, origin, store, procs, cancelPc, chain, clock, used,
                   listeners, delivery, repo>>

\* The save rejects: logged by updateState's catch, nothing else happens.
SaveFails ==
    /\ \E r \in pending : pending' = pending \ {r}
    /\ UNCHANGED <<alive, origin, state, notified, store, procs, cancelPc, chain, clock, used,
                   listeners, delivery, repo>>

(***************************************************************************)
(* cancel(): await storage.remove, then updateState.                       *)
(***************************************************************************)
cancel ==
    /\ alive
    /\ cancelPc = "idle"
    /\ used.cancels < MaxCancels
    /\ used' = [used EXCEPT !.cancels = @ + 1]
    /\ cancelPc' = "removing"
    /\ UNCHANGED <<alive, origin, state, notified, store, pending, procs, chain, clock,
                   listeners, delivery, repo>>

\* Mutant: cancel() also clears the artifacts of the steps.
CancelRemovedResets ==
    /\ cancelPc = "removing"
    /\ clock' = clock
    /\ UpdateStateOver([step |-> "IDLE", isLoading |-> FALSE,
                        error |-> "Session cancelled",
                        approvalTxHash |-> NoHash, burnTxHash |-> NoHash,
                        userOpHash |-> NoHash, userOpReceiptTxHash |-> NoHash,
                        attestation |-> NoHash, mintTxHash |-> NoHash], NoRecord)
    /\ cancelPc' = "idle"
    /\ UNCHANGED <<alive, origin, procs, chain, used>>

CancelRemoved ==
    /\ cancelPc = "removing"
    /\ clock' = clock
    /\ UpdateStateOver([step |-> "IDLE", isLoading |-> FALSE,
                        error |-> "Session cancelled"], NoRecord)
    /\ cancelPc' = "idle"
    /\ UNCHANGED <<alive, origin, procs, chain, used>>

\* storage.remove rejects: cancel() rejects before its updateState.
CancelRemoveThrows ==
    /\ cancelPc = "removing"
    /\ cancelPc' = "idle"
    /\ UNCHANGED <<alive, origin, state, notified, store, pending, procs, chain, clock, used,
                   listeners, delivery, repo>>

(***************************************************************************)
(* The process dies (reload, crash): the instance, its invocations and the *)
(* saves in flight are lost; the store and the chains keep what they have. *)
(***************************************************************************)
Crash ==
    /\ alive
    /\ alive' = FALSE
    /\ procs' = [i \in Slots |-> IdleProc("none", "none")]
    /\ cancelPc' = "idle"
    /\ pending' = {}
    /\ UNCHANGED <<origin, state, notified, store, chain, clock, used>>
    /\ listeners' = <<>>
    /\ delivery' = NoDelivery
    /\ repo' = repo

\* Mutant: a missing record makes resume() reject.
resumeNotFoundThrows ==
    /\ ~alive
    /\ store = NoRecord
    /\ origin' = "rejected"
    /\ UNCHANGED <<alive, state, notified, store, pending, procs, cancelPc, chain, clock,
                   used, listeners, delivery, repo>>

\* resume() when load() yields null: resolves to null, no orchestrator.
resumeNotFound ==
    /\ ~alive
    /\ store = NoRecord
    /\ origin' = "none"
    /\ UNCHANGED <<alive, state, notified, store, pending, procs, cancelPc, chain, clock,
                   used, listeners, delivery, repo>>

\* Mutant: the stored record is taken as it is, stale flags included.
resumeKeepsFlags ==
    /\ ~alive
    /\ store # NoRecord
    /\ alive' = TRUE
    /\ origin' = "resume"
    /\ state' = store
    /\ UNCHANGED <<notified, store, pending, procs, cancelPc, chain, clock, used,
                   listeners, delivery, repo>>

\* resume(): null when the store has no record; else the stored record with
\* error and isLoading cleared.  No notification, no save.
resume ==
    /\ ~alive
    /\ store # NoRecord
    /\ alive' = TRUE
    /\ origin' = "resume"
    /\ state' = [store EXCEPT !.error = Null, !.isLoading = FALSE]
    /\ UNCHANGED <<notified, store, pending, procs, cancelPc, chain, clock, used,
                   listeners, delivery, repo>>

(***************************************************************************)
(* Calls of the Session Store implementations.                             *)
(***************************************************************************)
fsm ==
    <<alive, origin, state, notified, store, pending, procs, cancelPc, chain, clock,
      used, listeners, delivery>>

save(impl, sessionId, s, fault) ==
    /\ impl = "MemoryStorageRepository" => fault = "none"
    /\ LET done == IF impl = "MemoryStorageRepository"
                   THEN MemorySave(repo.items[impl], sessionId, s)
                   ELSE LocalSave(repo.items[impl], sessionId, s, fault)
       IN repo' = [ items |-> [repo.items EXCEPT ![impl] = done.items],
                    written |-> [repo.written EXCEPT ![impl][sessionId] = s],
                    result |-> Answer(impl, "save", sessionId, fault, done.outcome,
                                      NoRecord, {}) ]
    /\ UNCHANGED fsm

load(impl, sessionId, fault) ==
    /\ impl = "MemoryStorageRepository" => fault = "none"
    /\ LET done == IF impl = "MemoryStorageRepository"
                   THEN MemoryLoad(repo.items[impl], sessionId)
                   ELSE LocalLoad(repo.items[impl], sessionId, fault)
       IN repo' = [repo EXCEPT !.result = Answer(impl, "load", sessionId, fault,
                                                 done.outcome, done.state, {})]
    /\ UNCHANGED fsm

remove(impl, sessionId, fault) ==
    /\ impl = "MemoryStorageRepository" => fault = "none"
    /\ LET done == IF impl = "MemoryStorageRepository"
                   THEN MemoryRemove(repo.items[impl], sessionId)
                   ELSE LocalRemove(repo.items[impl], sessionId, fault)
       IN repo' = [ items |-> [repo.items EXCEPT ![impl] = done.items],
                    written |-> [repo.written EXCEPT ![impl][sessionId] = NoRecord],
                    result |-> Answer(impl, "remove", sessionId, fault, done.outcome,
                                      NoRecord, {}) ]
    /\ UNCHANGED fsm

listSessions(impl, fault) ==
    /\ impl = "MemoryStorageRepository" => fault = "none"
    /\ LET sessions == IF impl = "MemoryStorageRepository"
                       THEN MemoryListSessions(repo.items[impl])
                       ELSE LocalListSessions(repo.items[impl], fault)
       IN repo' = [repo EXCEPT !.result = Answer(impl, "listSessions", generateSessionId,
                                                 fault, "ok", NoRecord, sessions)]
    /\ UNCHANGED fsm

(***************************************************************************)
(* create(): the initial state, `await storage.save(sessionId, state)`,    *)
(* then the orchestrator.  It is called where no session lives or is       *)
(* stored; the new id has no entry in the store.  store is what the        *)
(* repository then holds under the id.                                     *)
(***************************************************************************)
create(impl, mode, fault) ==
    /\ ~alive
    /\ store = NoRecord
    /\ impl = "MemoryStorageRepository" => fault = "none"
    /\ LET sessionId == generateSessionId
           initialState == InitialState(mode, clock)
           items == removeItem(repo.items[impl],
                               IF impl = "MemoryStorageRepository"
                               THEN sessionId ELSE getKey(sessionId))
           done == IF impl = "MemoryStorageRepository"
                   THEN MemorySave(items, sessionId, initialState)
                   ELSE LocalSave(items, sessionId, initialState, fault)
           held == IF impl = "MemoryStorageRepository"
                   THEN MemoryLoad(done.items, sessionId).state
                   ELSE LocalLoad(done.items, sessionId, "none").state
       IN /\ repo' = [ items |-> [repo.items EXCEPT ![impl] = done.items],
                       written |-> [repo.written EXCEPT ![impl][sessionId] = initialState],
                       result |-> Answer(impl, "save", sessionId, fault, done.outcome,
                                         NoRecord, {}) ]
          /\ IF done.outcome = "ok"
             THEN /\ alive' = TRUE
                  /\ origin' = "create"
                  /\ state' = initialState
                  /\ notified' = initialState
                  /\ store' = held
             ELSE /\ origin' = "none"
                  /\ UNCHANGED <<alive, state, notified, store>>
    /\ UNCHANGED <<pending, procs, cancelPc, chain, clock, used, listeners, delivery>>

(***************************************************************************)
(* Specifications.                                                         *)
(***************************************************************************)
\* An execute() invocation whose adapter and store operations all succeed.
RunOk(i) ==
    \/ execute(i)
    \/ executeFlow(i)
    \/ HandlerCall(i)
    \/ AdapterReturns(i)
    \/ CleanupReturns(i)

\* An execute() invocation, with every failure it can meet.
Run(i) ==
    \/ RunOk(i)
    \/ AdapterThrows(i)
    \/ RelayerRefuses(i)
    \/ CleanupThrows(i)

\* A caller invokes execute() again while the instance is loading.
ExecuteWhileLoading == state.isLoading /\ execute("b")

\* One execute() at a time, each awaited before the next.
NextSeq == Run("a") \/ SaveLands

SpecSeq == Init /\ [][NextSeq]_vars

\* Sequential execute() calls over a store whose saves settle at once, as
\* those of the two implementations do.
RunWhenSaved == pending = {} /\ Run("a")

NextPrompt == RunWhenSaved \/ SaveLands

SpecPrompt == Init /\ [][NextPrompt]_vars

\* Sequential execute() calls, crashes and resumes.
NextCrash == NextSeq \/ Crash \/ resume

SpecCrash == Init /\ [][NextCrash]_vars

\* Crashes and resumes of flows in which the relayer's mint or the final
\* removal may fail.
NextResume ==
    \/ RunOk("a")
    \/ RelayerRefuses("a")
    \/ MintThrows("a")
    \/ CleanupThrows("a")
    \/ SaveLands
    \/ Crash
    \/ resume
    \/ resumeNotFound

SpecResume == Init /\ [][NextResume]_vars

\* Sequential execute() calls with saves that may fail.
NextSaveFails == NextSeq \/ SaveFails

SpecSaveFails == Init /\ [][NextSaveFails]_vars

\* Sequential execute() calls and cancel().
NextCancel == NextSeq \/ cancel \/ CancelRemoved \/ CancelRemoveThrows

SpecCancel == Init /\ [][NextCancel]_vars

\* Fault-free execute() calls, and calls made while a handler is loading.
NextReentry == RunOk("a") \/ SaveLands \/ ExecuteWhileLoading

SpecReentry == Init /\ [][NextReentry]_vars

\* execute() calls that overlap on one instance, every operation succeeding.
NextOverlap == (\E i \in Slots : RunOk(i)) \/ SaveLands

SpecOverlap == Init /\ [][NextOverlap]_vars

\* One execute() on a new session, nothing failing.
NewSessionExecute == state.step = "IDLE" /\ execute("a")

NextOnce ==
    \/ NewSessionExecute
    \/ executeFlow("a")
    \/ HandlerCall("a")
    \/ AdapterReturns("a")
    \/ CleanupReturns("a")
    \/ SaveLands

SpecOnce == Init /\ [][NextOnce]_vars

\* One fault-free execute() against a store every save of which fails, the
\* flow going on while fewer than MaxPending saves are in flight, so that none
\* lands; the flow, the adapter and the store always answer.
FlowStep ==
    \/ NewSessionExecute
    \/ executeFlow("a")
    \/ HandlerCall("a")
    \/ AdapterReturns("a")
    \/ CleanupReturns("a")

FlowWhenSettled == Cardinality(pending) < MaxPending /\ FlowStep

NextSavesFail == SaveFails \/ FlowWhenSettled

SpecSavesFail ==
    /\ Init
    /\ [][NextSavesFail]_vars
    /\ WF_vars(SaveFails)
    /\ WF_vars(FlowWhenSettled)

\* subscribe(listener): push; each callback is subscribed at most once here.
subscribe ==
    /\ alive
    /\ Len(listeners) < MaxListeners
    /\ \E l \in Listener :
          /\ \A k \in 1..Len(listeners) : listeners[k] # l
          /\ listeners' = Append(listeners, l)
    /\ UNCHANGED <<alive, origin, state, notified, store, pending, procs, cancelPc, chain,
                   clock, used, delivery, repo>>

\* The function subscribe() returned, called outside any notification.
unsubscribe ==
    /\ \E k \in 1..Len(listeners) : listeners' = Splice(listeners, listeners[k])
    /\ UNCHANGED <<alive, origin, state, notified, store, pending, procs, cancelPc, chain,
                   clock, used, delivery, repo>>

\* A caller writes through the object getState() returned: the top level is
\* frozen, the attestation object is the live one.
getStateThenWrite ==
    /\ alive
    /\ state.attestation \notin {NoHash, Tampered}
    /\ state' = [state EXCEPT !.attestation = Tampered]
    /\ UNCHANGED <<alive, origin, notified, store, pending, procs, cancelPc, chain,
                   clock, used, listeners, delivery, repo>>

\* One fault-free execute() observed by listeners; the store is slow: a save
\* completes only when MaxPending later ones have been issued.
NextObservers ==
    \/ NewSessionExecute
    \/ executeFlow("a")
    \/ HandlerCall("a")
    \/ AdapterReturns("a")
    \/ CleanupReturns("a")
    \/ subscribe
    \/ unsubscribe
    \/ getStateThenWrite

SpecObservers == Init /\ [][NextObservers]_vars

\* The listeners subscribe before execute() is first called.
SubscribeFirst ==
    /\ procs["a"].pc = "idle"
    /\ procs["a"].outcome = "none"
    /\ subscribe

NextListeners ==
    \/ SubscribeFirst
    \/ NewSessionExecute
    \/ executeFlow("a")
    \/ HandlerCall("a")
    \/ AdapterReturns("a")
    \/ CleanupReturns("a")

SpecListeners == Init /\ [][NextListeners]_vars

\* cancel() called only while a handler awaits its adapter operation.
CancelWhileAwaiting == procs["a"].pc = "adapter" /\ cancel

NextCancelAwaiting ==
    \/ RunOk("a")
    \/ SaveLands
    \/ CancelWhileAwaiting
    \/ CancelRemoved

SpecCancelAwaiting == Init /\ [][NextCancelAwaiting]_vars

\* execute() calls awaited one after the other, every failure included, and
\* cancel() at any time, over a store whose saves settle at once.  What an
\* invocation awaits always settles: the handler's updates, the adapter
\* operation (returning or throwing), the removal of cleanup().
Settles(i) ==
    \/ executeFlow(i)
    \/ HandlerCall(i)
    \/ AdapterReturns(i)
    \/ AdapterThrows(i)
    \/ RelayerRefuses(i)
    \/ CleanupReturns(i)
    \/ CleanupThrows(i)

SettlesWhenSaved == pending = {} /\ Settles("a")

CallsWhenSaved ==
    /\ pending = {}
    /\ (execute("a") \/ cancel \/ CancelRemoved \/ CancelRemoveThrows)

NextBounded == SettlesWhenSaved \/ CallsWhenSaved \/ SaveLands

SpecBounded ==
    /\ Init
    /\ [][NextBounded]_vars
    /\ WF_vars(SettlesWhenSaved)
    /\ WF_vars(SaveLands)

\* The life of a session over a store whose saves settle at once: execute()
\* calls awaited one after the other with every failure, cancel() at any
\* time, the death of the process and resume().
LivesWhenSaved ==
    /\ pending = {}
    /\ \/ Run("a")
       \/ cancel \/ CancelRemoved \/ CancelRemoveThrows
       \/ Crash

NextLifecycle == LivesWhenSaved \/ SaveLands \/ resume \/ resumeNotFound

SpecLifecycle == Init /\ [][NextLifecycle]_vars

\* Sessions created one after the other, each run to its end without a
\* failure, over either store implementation and any state of localStorage.
NextCreate ==
    \/ \E impl \in Impl, mode \in BridgeMode, fault \in Faults : create(impl, mode, fault)
    \/ pending = {} /\ RunOk("a")
    \/ SaveLands
    \/ Crash

SpecCreate == Init /\ [][NextCreate]_vars

\* resume() takes the record it finds under the id as it is (JSON.parse,
\* no validation).  Records at BURNED that another writer of the storage
\* left: without a burn hash, or with the hash of the other mode only.
ForeignRecords ==
    { [InitialState(mode, 0) EXCEPT !.step = "BURNED", !.burnTxHash = b,
                                    !.userOpReceiptTxHash = u] :
        mode \in BridgeMode, b \in {NoHash, 1}, u \in {NoHash, 1} }

StoredElsewhere ==
    /\ ~alive
    /\ \E r \in ForeignRecords : store' = r
    /\ UNCHANGED <<alive, origin, state, notified, pending, procs, cancelPc, chain,
                   clock, used, listeners, delivery, repo>>

\* Sessions run without an adapter failure, and sessions resumed from a
\* record found in the storage.
NextAttest ==
    \/ pending = {} /\ RunOk("a")
    \/ SaveLands
    \/ Crash
    \/ StoredElsewhere
    \/ resume

SpecAttest == Init /\ [][NextAttest]_vars

\* execute() calls with every failure, and cancel() called and completed
\* only between two of them, over a store whose saves settle at once.
RunBetweenCancels == pending = {} /\ cancelPc = "idle" /\ Run("a")

CancelWhenIdle == procs["a"].pc = "idle" /\ cancel

NextCancelBetween == RunBetweenCancels \/ SaveLands \/ CancelWhenIdle \/ CancelRemoved

SpecCancelBetween == Init /\ [][NextCancelBetween]_vars

\* The Session Store implementations over a working localStorage.
NextStore ==
    \E impl \in Impl, sessionId \in SessionIds :
        \/ \E s \in RepoStates : save(impl, sessionId, s, "none")
        \/ load(impl, sessionId, "none")
        \/ remove(impl, sessionId, "none")
        \/ listSessions(impl, "none")

SpecStore == Init /\ [][NextStore]_vars

\* LocalStorageRepository over a localStorage that may fail during any call.
NextStoreFaults ==
    \E sessionId \in SessionIds, fault \in Faults :
        \/ \E s \in RepoStates : save("LocalStorageRepository", sessionId, s, fault)
        \/ load("LocalStorageRepository", sessionId, fault)
        \/ remove("LocalStorageRepository", sessionId, fault)
        \/ listSessions("LocalStorageRepository", fault)

SpecStoreFaults == Init /\ [][NextStoreFaults]_vars

\* Everything.
Next ==
    \/ \E i \in Slots : Run(i)
    \/ NextStore \/ NextStoreFaults
    \/ StoredElsewhere
    \/ \E impl \in Impl, mode \in BridgeMode, fault \in Faults : create(impl, mode, fault)
    \/ SaveLands \/ SaveFails
    \/ cancel \/ CancelRemoved \/ CancelRemoveThrows
    \/ Crash \/ resume \/ resumeNotFound
    \/ subscribe \/ unsubscribe \/ getStateThenWrite

Spec == Init /\ [][Next]_vars

(***************************************************************************)
(* Type invariant.                                                         *)
(***************************************************************************)
TypeOK ==
    /\ alive \in BOOLEAN
    /\ origin \in {"create", "resume", "none"}
    /\ state.step \in Steps
    /\ state.mode \in BridgeMode
    /\ state.isLoading \in BOOLEAN
    /\ Cardinality(pending) <= MaxPending
    /\ \A i \in Slots :
          /\ procs[i].pc \in {"idle", "flow", "call", "adapter", "after", "cleanup"}
          /\ procs[i].outcome \in {"none", "skipped", "ok", "caught", "rejected"}
    /\ used.cancels \in 0..MaxCancels
    /\ used.overlaps \in 0..MaxOverlaps
    /\ cancelPc \in {"idle", "removing"}
    /\ clock \in 0..MaxClock
    /\ Len(listeners) <= MaxListeners
    /\ \A k \in 1..Len(listeners) : listeners[k] \in Listener
    /\ delivery.threw \in BOOLEAN
    /\ repo.result.impl \in Impl
    /\ repo.result.outcome \in {"ok", "failed"}
    /\ repo.result.sessions \subseteq SessionIds
    /\ \A impl \in Impl, id \in SessionIds :
          repo.written[impl][id].sessionId \in {"none", generateSessionId}

(***************************************************************************)
(* Properties.                                                             *)
(***************************************************************************)
\* The fixed sequence of steps of a mode (execute()'s contract).
ModeSequence(mode) ==
    IF mode = "standard"
    THEN <<"IDLE", "APPROVED", "BURNED", "ATTESTED", "COMPLETED">>
    ELSE <<"IDLE", "BURNED", "ATTESTED", "COMPLETED">>

\* Position of a step in the mode's sequence, 0 when it is not in it.
Position(mode, step) ==
    LET seq == ModeSequence(mode) IN
    IF \E k \in 1..Len(seq) : seq[k] = step
    THEN CHOOSE k \in 1..Len(seq) : seq[k] = step
    ELSE 0

\* Every record of the session there is: in memory, as notified, stored, in flight.
Records == {state, notified} \cup ({store} \ {NoRecord}) \cup pending

\* C1: for one session, over execute() calls, adapter failures and crashes
\* followed by resume(), the burn is submitted successfully at most once, and
\* so is the mint.
C1_ExactlyOnceSubmission == chain.burns <= 1 /\ chain.mints <= 1

\* C2: a resumed smart-account session whose record holds userOpHash but no
\* userOpReceiptTxHash awaits only waitForUserOperation on the stored hash; it
\* does not call approveAndBurnUSDCUsingSmartAccount again.
C2_ResumeReentersWait ==
    \A i \in Slots :
        ( /\ origin = "resume"
          /\ state.mode = "smart-account"
          /\ state.userOpHash # NoHash
          /\ state.userOpReceiptTxHash = NoHash
          /\ procs[i].pc = "adapter" )
        => /\ procs[i].op = "waitForUserOperation"
           /\ procs[i].arg = state.userOpHash

\* C3: once execute() has driven the step to COMPLETED and returned after a
\* successful cleanup, and every save it issued has completed, the store holds
\* no record of the session.
C3_NoCompletedSessionPersists ==
    ( /\ procs["a"].pc = "idle"
      /\ procs["a"].outcome = "ok"
      /\ state.step = "COMPLETED"
      /\ pending = {} )
    => store = NoRecord

\* C4: over any execute() calls on one session, the step returned by
\* getState() and the step notified never move backwards in the mode's
\* sequence, and stay within it (no APPROVED in smart-account mode).
C4_MonotonicStepSequence ==
    [][ /\ Position(state'.mode, state'.step) >= Position(state.mode, state.step)
        /\ Position(notified'.mode, notified'.step)
              >= Position(notified.mode, notified.step)
        /\ Position(state'.mode, state'.step) > 0
        /\ Position(notified'.mode, notified'.step) > 0 ]_vars

\* C5: after any of execute(), resume() and cancel(), the step of the record
\* is never earlier in the mode's sequence than a step it held before.
C5_StepNeverRegresses ==
    [][ Position(state'.mode, state'.step) >= Position(state.mode, state.step) ]_vars

\* C6: in every record of the session (in memory, notified, stored or being
\* saved) the attestation is present exactly when the step is ATTESTED or
\* COMPLETED.
C6_AttestationPresence ==
    \A r \in Records :
        (r.attestation # NoHash) <=> (r.step \in {"ATTESTED", "COMPLETED"})

\* C7: execute() invoked while isLoading is true returns without changing the
\* state, without a notification, without a store write and without an adapter
\* operation; the running invocation is not disturbed.
C7_ReentrancyGuard ==
    [][ (state.isLoading /\ used'.overlaps > used.overlaps)
        => /\ state' = state
           /\ notified' = notified
           /\ store' = store
           /\ pending' = pending
           /\ chain' = chain
           /\ procs'["a"] = procs["a"]
           /\ procs'["b"].pc = "idle" ]_vars

\* C7 witness: a second execute() was skipped while the first awaits its adapter.
C7_Witness ==
    /\ procs["b"].outcome = "skipped"
    /\ procs["a"].pc = "adapter"
    /\ state.isLoading

\* C8: whatever the interleaving of execute() calls on one instance, at most
\* one step handler awaits an adapter operation at any time.
C8_SingleFlow == Cardinality({i \in Slots : procs[i].pc = "adapter"}) <= 1

\* C9: when the adapter operation of the current step's handler fails,
\* execute() ends with the step unchanged, the error set to the failure
\* message and isLoading false; the next execute() invokes that same handler
\* again and, when the adapter then succeeds, the step advances to the next
\* step of the mode.
C9_ErrorThenRetry ==
    [][ \A i \in Slots :
        /\ (procs[i].pc = "adapter" /\ procs'[i].pc = "idle")
           => /\ state'.step = state.step
              /\ state'.error \in {"adapter failed", "An unknown error occurred",
                                   "MINT_FAILED", "Unknown error from relayer",
                                   "Relayer returned an error"}
              /\ ~state'.isLoading
        /\ (procs[i].pc = "flow" /\ procs[i].outcome = "caught" /\ procs'[i] # procs[i]
              /\ state.step # "COMPLETED")
           => /\ procs'[i].pc = "call"
              /\ procs'[i].handler = procs[i].handler
        /\ (procs[i].pc = "adapter" /\ procs'[i].pc = "after")
           => /\ Position(state.mode, state'.step) = Position(state.mode, state.step) + 1
              /\ state'.error = Null
              /\ ~state'.isLoading ]_vars

\* C9 witness: the burn failed, execute() was called again and reached BURNED.
C9_Witness ==
    /\ state.mode = "standard"
    /\ procs["a"].outcome = "caught"
    /\ procs["a"].handler = "stepBurn"
    /\ procs["a"].pc = "after"
    /\ state.step = "BURNED"

C11_ExecuteAfterCompletionIsNoOp ==
    [][ ( /\ procs["a"].pc = "idle"
          /\ procs["a"].outcome = "ok"
          /\ state.step = "COMPLETED"
          /\ store = NoRecord
          /\ pending = {}
          /\ procs'["a"].pc # "idle" )
        => /\ state' = state
           /\ notified' = notified
           /\ pending' = pending
           /\ store' = store ]_vars

\* C12: after cancel() has returned and every store write it issued has
\* completed, the store holds no record of the session.
C12_CancelRemovesRecord ==
    ( /\ cancelPc = "idle"
      /\ state.error = "Session cancelled"
      /\ \A i \in Slots : procs[i].pc = "idle" /\ procs[i].outcome = "none"
      /\ pending = {} )
    => store = NoRecord

\* C13: when cancel() was called while a handler awaited its adapter
\* operation and has taken effect, the running execute() invokes no further
\* handler once the handler in flight returns.
C13_CooperativeCancellation ==
    [][ ( /\ procs["a"].pc = "after"
          /\ state.error = "Session cancelled"
          /\ cancelPc = "idle" )
        => procs'["a"].pc # "call" ]_vars

\* C14: one execute() on a new session with every adapter operation
\* succeeding ends at COMPLETED with the artifacts the adapter returned, no
\* error, isLoading false, and the store not containing the session.
C14_OneExecuteCompletes ==
    ( procs["a"].pc = "idle" /\ procs["a"].outcome = "ok" )
    => /\ state.step = "COMPLETED"
       /\ state.error = Null
       /\ ~state.isLoading
       /\ state.mintTxHash = chain.mints
       /\ state.attestation # NoHash
       /\ IF state.mode = "standard"
          THEN state.burnTxHash = chain.burns
          ELSE state.userOpHash = chain.burns /\ state.userOpReceiptTxHash = chain.burns
       /\ store = NoRecord

\* C15: when approveUSDC reports the allowance already sufficient the step
\* becomes APPROVED with no approvalTxHash and no approval submitted; from
\* APPROVED on, execute() starts the burn handler and never approves again.
C15_AlreadyApproved ==
    [][ \A i \in Slots :
        /\ ( /\ procs[i].pc = "adapter"
             /\ procs[i].op = "approveUSDC"
             /\ chain.allowance > state.amount
             /\ procs'[i].pc = "after" )
           => /\ state'.step = "APPROVED"
              /\ state'.approvalTxHash = NoHash
              /\ chain' = chain
        /\ ( /\ state.step = "APPROVED"
             /\ procs[i].pc \in {"flow", "after"}
             /\ procs'[i].pc = "call" )
           => procs'[i].op = "burnUSDC"
        /\ ( /\ state.step # "IDLE"
             /\ procs[i].op # "approveUSDC" )
           => procs'[i].op # "approveUSDC" ]_vars

\* C15 witness: approve found the allowance sufficient, and a later execute()
\* from APPROVED awaits the burn, no approval ever having been submitted.
C15_Witness ==
    /\ state.step = "APPROVED"
    /\ state.approvalTxHash = NoHash
    /\ chain.approvals = 0
    /\ procs["a"].outcome = "caught"
    /\ procs["a"].pc = "adapter"
    /\ procs["a"].op = "burnUSDC"

\* C16: whenever the process may crash, the stored record is at most one
\* step of the mode's sequence behind the last state notified.
C16_CrashLosesAtMostOneUpdate ==
    (alive /\ store # NoRecord)
    => Position(notified.mode, notified.step) - Position(store.mode, store.step) <= 1

\* C20: resume() of a stored record yields that record with isLoading false
\* and error null and every other field as stored; it invokes no adapter
\* operation, notifies nobody and issues no store write.
C20_ResumeClearsStaleFlags ==
    [][ (~alive /\ alive')
        => /\ state' = [f \in DOMAIN store |->
                           IF f = "isLoading" THEN FALSE
                           ELSE IF f = "error" THEN Null
                           ELSE store[f]]
           /\ notified' = notified
           /\ store' = store
           /\ pending' = pending
           /\ chain' = chain
           /\ \A i \in Slots : procs'[i].pc = "idle" ]_vars

\* C20 witness: the record was stored while loading and is resumed not loading.
C20_Witness ==
    /\ alive
    /\ origin = "resume"
    /\ store # NoRecord
    /\ store.isLoading
    /\ ~state.isLoading
    /\ state.step = store.step
    /\ \A i \in Slots : procs[i].pc = "idle"

\* C17: in one notification every listener that was subscribed when it
\* started is invoked exactly once, whatever the listeners do in their callbacks.
C17_NotificationOverSnapshot ==
    \A k \in 1..Len(delivery.before) :
        Cardinality({j \in 1..Len(delivery.received) :
                        delivery.received[j] = delivery.before[k]}) = 1

\* The listeners with the throwing one replaced by one that returns normally.
Quiet(ls) == [k \in 1..Len(ls) |-> IF ls[k] = "throws" THEN "plain" ELSE ls[k]]

\* C18: when a listener throws during a notification, the listeners invoked
\* and the orchestrator's state are those of the same notification with that
\* listener not throwing, the save of the update is issued, and execute()
\* goes on without a failure.
C18_ListenerIsolation ==
    [][ delivery'.threw
        => /\ Quiet(delivery'.received)
                = notify(Quiet(delivery'.before), NoHash).received
           /\ state' = [notified' EXCEPT !.attestation =
                 notify(Quiet(delivery'.before), notified'.attestation).attestation]
           /\ (state' # state => state' \in pending')
           /\ procs'["a"].outcome \notin {"caught", "rejected"} ]_vars

\* C18 witness: a flow completed whose notifications went to a throwing
\* listener first and then to another one.
C18_Witness ==
    /\ delivery.threw
    /\ delivery.before = <<"throws", "plain">>
    /\ delivery.received = <<"throws", "plain">>
    /\ state.step = "COMPLETED"
    /\ procs["a"].pc = "idle"
    /\ procs["a"].outcome = "ok"

\* C19: no write through an object returned by getState() or passed to a
\* listener reaches the live state, a later notification or a store write.
C19_ImmutableSnapshots == \A r \in Records : r.attestation # Tampered

\* C21: resume() for an identifier without a record in the store resolves
\* to null: it does not throw, creates no orchestrator and leaves the store
\* and everything else as they were.
C21_ResumeNotFound ==
    [][ (~alive /\ store = NoRecord)
        => /\ origin' = "none"
           /\ ~alive'
           /\ store' = NoRecord
           /\ pending' = pending
           /\ chain' = chain
           /\ notified' = notified
           /\ \A i \in Slots : procs'[i].pc = "idle" ]_vars

\* C21 witness: the session completed and was removed, the process died, and
\* resume() found nothing.
C21_Witness ==
    /\ ~alive
    /\ origin = "none"
    /\ store = NoRecord
    /\ state.step = "COMPLETED"

\* C22: when every save issued after create() fails, execute() still takes
\* the step to COMPLETED and returns normally, every update is notified, and
\* the error field stays null.
C22_SaveFailuresNeverBlock ==
    /\ <>( /\ state.step = "COMPLETED"
           /\ procs["a"].pc = "idle"
           /\ procs["a"].outcome = "ok" )
    /\ []( /\ state.error = Null
           /\ notified = state
           /\ procs["a"].outcome \notin {"caught", "rejected"}
           /\ store \in {InitialState(state.mode, 0), NoRecord} )

\* C22 witness: COMPLETED is reached while the store still holds the record
\* create() saved, no later save having succeeded.
C22_Witness ==
    /\ state.step = "COMPLETED"
    /\ procs["a"].pc = "cleanup"
    /\ store = InitialState(state.mode, 0)
    /\ pending # {}

\* C25: approveUSDC submits no approve transaction when the allowance
\* already covers the amount (allowance >= amount).
C25_ApproveIdempotent ==
    [][ \A i \in Slots :
          ( /\ procs[i].pc = "adapter"
            /\ procs[i].op = "approveUSDC"
            /\ procs'[i].pc # "adapter"
            /\ chain.allowance >= state.amount )
          => chain'.approvals = chain.approvals ]_vars

\* C23: a load or a remove during which the backing storage fails is
\* reported to the caller as a failure.
C23_LoadRemoveFailuresSurface ==
    ( /\ repo.result.op \in {"load", "remove"}
      /\ repo.result.fault \in {"window", "getItem", "removeItem"} )
    => repo.result.outcome = "failed"

\* C24: over a working storage a load answers the last record saved under
\* the id and not removed since, absent when there is none, and listSessions
\* answers the ids that have one; other ids are unaffected.
C24_StoreRoundTrip ==
    /\ repo.result.op = "load"
       => /\ repo.result.outcome = "ok"
          /\ repo.result.state = repo.written[repo.result.impl][repo.result.sessionId]
    /\ repo.result.op = "listSessions"
       => repo.result.sessions
            = {id \in SessionIds : repo.written[repo.result.impl][id] # NoRecord}

\* C24 witness: LocalStorageRepository loads a record under one id after the
\* other id was saved with a different record, and the loaded record has
\* optional fields that were never set.
C24_Witness ==
    /\ repo.result.op = "load"
    /\ repo.result.impl = "LocalStorageRepository"
    /\ repo.result.sessionId = generateSessionId
    /\ repo.result.state = InitialState("standard", 0)
    /\ repo.written["LocalStorageRepository"]["s2"] \in RepoStates \ {repo.result.state}

\* C26: in the approve+burn handler the userOpHash returned by the submission
\* is merged, notified and issued to the store in an update of its own, with
\* step still IDLE and isLoading still true, before the wait for the receipt
\* begins; the receipt hash, step BURNED and isLoading false come together in
\* a later update.
C26_TwoSubUpdates ==
    [][ \A i \in Slots :
          /\ ( /\ procs[i].pc = "adapter"
               /\ procs[i].op = "approveAndBurnUSDCUsingSmartAccount"
               /\ procs'[i].op = "waitForUserOperation" )
             => /\ procs'[i].pc = "call"
                /\ state'.userOpHash # NoHash
                /\ state'.userOpHash = procs'[i].arg
                /\ state'.step = "IDLE"
                /\ state'.isLoading
                /\ state'.userOpReceiptTxHash = NoHash
                /\ notified' = state'
                /\ state' \in pending'
          /\ ( /\ procs[i].pc = "adapter"
               /\ procs[i].op = "waitForUserOperation"
               /\ procs'[i].pc = "after" )
             => /\ state.step = "IDLE" /\ state.isLoading
                /\ state.userOpReceiptTxHash = NoHash
                /\ state'.step = "BURNED"
                /\ ~state'.isLoading
                /\ state'.userOpReceiptTxHash = procs[i].arg
                /\ state'.userOpHash = state.userOpHash
                /\ notified' = state'
                /\ state' \in pending' ]_vars

\* C26 witness: the wait for the receipt is under way and the store already
\* holds the userOpHash, at step IDLE and with no receipt hash.
C26_Witness ==
    /\ procs["a"].pc = "adapter"
    /\ procs["a"].op = "waitForUserOperation"
    /\ store # NoRecord
    /\ store.userOpHash = state.userOpHash
    /\ store.userOpHash # NoHash
    /\ store.step = "IDLE"
    /\ store.userOpReceiptTxHash = NoHash

C28_RelayFailureIsOrdinary ==
    [][ \A i \in Slots :
          /\ ( /\ procs[i].pc = "adapter"
               /\ procs[i].op = "mintUSDCViaRelayer"
               /\ procs'[i].pc = "idle"
               /\ alive' )
             => /\ procs'[i].outcome = "caught"
                /\ state'.step = "ATTESTED"
                /\ state'.attestation = state.attestation
                /\ state'.attestation # NoHash
                /\ state'.error \in {"MINT_FAILED", "Unknown error from relayer",
                                     "adapter failed", "An unknown error occurred"}
                /\ ~state'.isLoading
                /\ chain' = chain
          /\ ( /\ procs'[i].pc = "adapter"
               /\ procs'[i].op = "mintUSDCViaRelayer" )
             => /\ state'.step = "ATTESTED"
                /\ procs'[i].arg = state'.attestation
                /\ state'.attestation = state.attestation
          /\ ( /\ procs[i].pc = "adapter"
               /\ procs[i].op = "mintUSDCViaRelayer"
               /\ procs'[i].pc = "after" )
             => /\ state'.step = "COMPLETED"
                /\ state'.mintTxHash # NoHash
                /\ chain'.mints = Min(chain.mints + 1, MaxSubmits) ]_vars

\* C28 witness: the relayer refused with an empty message, execute() was
\* called again and the session is COMPLETED.
C28_Witness ==
    /\ procs["a"].outcome = "caught"
    /\ procs["a"].handler = "stepMintViaRelayer"
    /\ procs["a"].pc = "after"
    /\ state.step = "COMPLETED"
    /\ store # NoRecord
    /\ store.error = "Unknown error from relayer"

\* C29: within one execute() call the handlers started are those of strictly
\* later steps of the mode, so each adapter operation is invoked at most
\* once; a recorded failure ends the call with nothing invoked; and the chain
\* changes only by the adapter operation of a running call, none of which
\* starts without a new execute().
C29_NoAutomaticRetry ==
    [][ /\ \A i \in Slots :
              /\ (procs[i].pc = "after" /\ procs'[i].pc = "call")
                 => /\ Position(state.mode, procs'[i].currentStep)
                         > Position(state.mode, procs[i].currentStep)
                    /\ procs'[i].handler = getFlowMap(state.mode)[procs'[i].currentStep]
                    /\ procs'[i].op = FirstOp(procs'[i].handler)
              /\ (procs[i].pc = "call" /\ procs'[i].pc = "call") => procs'[i] = procs[i]
              /\ (procs[i].pc = "idle" /\ procs'[i].pc # "idle")
                 => procs'[i].pc = "flow" /\ chain' = chain
        /\ (state.error = Null /\ state'.error # Null)
           => /\ chain' = chain
              /\ \A i \in Slots : procs'[i].pc = "idle"
        /\ chain' # chain => \E i \in Slots : procs[i].pc = "adapter" ]_vars

\* C29 witness: the burn failed after the approval succeeded in the same
\* call; the call is over and nothing else was submitted.
C29_Witness ==
    /\ procs["a"].pc = "idle"
    /\ procs["a"].outcome = "caught"
    /\ procs["a"].handler = "stepBurn"
    /\ state.step = "APPROVED"
    /\ state.error # Null
    /\ chain.approvals = 1
    /\ chain.burns = 0

\* C30: an execute() call starts at most 5 handlers in standard mode and 4
\* in smart-account mode, and it ends whenever everything it awaits settles,
\* whatever the step it starts from and whatever a cancel() does to the step
\* in between.
C30_BoundedIteration ==
    /\ [](\A i \in Slots :
            procs[i].transitions < (IF state.mode = "standard" THEN 5 ELSE 4))
    /\ (procs["a"].pc # "idle") ~> (procs["a"].pc = "idle")

\* C30 witness: the fifth iteration of a standard-mode call, reached because
\* a cancel() put the step back while the call was running.
C30_Witness ==
    /\ state.mode = "standard"
    /\ procs["a"].transitions = 4
    /\ procs["a"].pc = "adapter"
    /\ used.cancels > 0

\* C31: sessionId, mode, amount, destinationAddress, usePaymaster and
\* createdAt are the same after every step as before it, in the state in
\* memory, in the state notified, in the stored record and in every save in
\* flight.
C31_WriteOnceFields ==
    [][ \A f \in {"sessionId", "mode", "amount", "destinationAddress",
                  "usePaymaster", "createdAt"} :
          \A r \in Records' : r[f] = state[f] ]_vars

\* C31 witness: a session that failed, was cancelled, died and was resumed
\* at a later step than the one it was created in.
C31_Witness ==
    /\ origin = "resume"
    /\ alive
    /\ used.cancels > 0
    /\ state.step = "ATTESTED"
    /\ state.updatedAt # state.createdAt
    /\ procs["a"].outcome = "caught"

\* C32: a step artifact present in the state of an orchestrator is present
\* in its state after every step, failed handlers, further execute() calls
\* and cancel() included.
C32_ArtifactsNeverRetracted ==
    [][ (alive /\ alive')
        => \A f \in OptionalFields : state[f] # NoHash => state'[f] # NoHash ]_vars

\* C32 witness: cancel() put an attested session back to IDLE and its
\* artifacts are still there.
C32_Witness ==
    /\ alive
    /\ state.step = "IDLE"
    /\ state.error = "Session cancelled"
    /\ state.attestation # NoHash
    /\ state.mode = "standard"
    /\ state.approvalTxHash # NoHash
    /\ state.burnTxHash # NoHash

\* C33: when create() resolves the store holds the record of the new
\* session, at step IDLE, not loading, without error, so that resume()
\* finds it; when it does not resolve there is no orchestrator.
C33_CreatePersistsFirst ==
    [][ (~alive /\ store = NoRecord /\ repo'.result # repo.result)
        => IF alive'
           THEN /\ store' = state'
                /\ store'.step = "IDLE"
                /\ ~store'.isLoading
                /\ store'.error = Null
           ELSE repo'.result.outcome = "failed" /\ store' = NoRecord ]_vars

\* C34: the save an update issues carries the new state, and before it is
\* issued all the listeners subscribed when the update is made have been
\* invoked, in subscription order, with that state.
C34_NotifyBeforePersist ==
    [][ pending' \ pending # {}
        => /\ pending' \ pending = {state'}
           /\ notified'.step = state'.step
           /\ delivery'.before = listeners
           /\ delivery'.received = delivery'.before ]_vars

\* The artifact of the burn in a record: burnTxHash in standard mode,
\* userOpReceiptTxHash in smart-account mode.
BurnHash(r) == IF r.mode = "smart-account" THEN r.userOpReceiptTxHash ELSE r.burnTxHash

\* C35: after every step, each state there is (in memory, notified, stored,
\* in a save in flight) at BURNED, ATTESTED or COMPLETED has the burn hash
\* of its mode and at COMPLETED the mint hash; and a step that changes the
\* step field leaves isLoading false.
C35_StepAndArtifactTogether ==
    [][ /\ \A r \in Records' :
              /\ r.step \in {"BURNED", "ATTESTED", "COMPLETED"} => BurnHash(r) # NoHash
              /\ r.step \in {"ATTESTED", "COMPLETED"} => r.attestation # NoHash
              /\ r.step = "COMPLETED" => r.mintTxHash # NoHash
        /\ state'.step # state.step => ~state'.isLoading ]_vars

\* C35 witness: the save of the completing update is in flight.
C35_Witness ==
    /\ procs["a"].pc = "after"
    /\ state.step = "COMPLETED"
    /\ state \in pending
    /\ notified = state
    /\ state.mintTxHash # NoHash
    /\ BurnHash(state) # NoHash

\* C36: whenever the state in memory has isLoading true, a handler of the
\* orchestrator is between its setLoading(true) and the return of an adapter
\* operation it awaits; so isLoading is false when no execute() is running.
C36_LoadingOnlyInFlight ==
    (alive /\ state.isLoading)
    => \E i \in Slots : procs[i].pc \in {"call", "adapter"}

\* C36 witness: a call made after an earlier one failed awaits the receipt of
\* its user operation with isLoading true.
C36_Witness ==
    /\ alive
    /\ state.isLoading
    /\ procs["a"].pc = "adapter"
    /\ procs["a"].op = "waitForUserOperation"
    /\ procs["a"].outcome = "caught"

\* C37: the attest handler asks for the attestation of the burn hash of the
\* mode; when the state has none, it invokes no adapter operation and
\* execute() ends with the step unchanged, the error 'No burn transaction
\* hash available for attestation' and isLoading false.
C37_AttestUsesModeBurnHash ==
    [][ \A i \in Slots :
          ( /\ procs[i].pc = "call"
            /\ procs[i].op = "retrieveAttestation"
            /\ procs'[i] # procs[i]
            /\ alive' )
          => IF BurnHash(state) # NoHash
             THEN /\ procs'[i].pc = "adapter"
                  /\ procs'[i].arg = BurnHash(state)
                  /\ state' = state
             ELSE /\ procs'[i].pc = "idle"
                  /\ procs'[i].outcome = "caught"
                  /\ state'.step = state.step
                  /\ state'.error = "No burn transaction hash available for attestation"
                  /\ ~state'.isLoading
                  /\ chain' = chain ]_vars

\* C37 witness: a standard-mode session resumed at BURNED from a record
\* that holds a userOpReceiptTxHash and no burnTxHash; execute() has ended.
C37_Witness ==
    /\ alive
    /\ origin = "resume"
    /\ state.mode = "standard"
    /\ state.step = "BURNED"
    /\ state.burnTxHash = NoHash
    /\ state.userOpReceiptTxHash # NoHash
    /\ state.error = "No burn transaction hash available for attestation"
    /\ ~state.isLoading
    /\ procs["a"].pc = "idle"
    /\ procs["a"].outcome = "caught"

\* C38: on an instance that was cancelled and whose state holds the hash of
\* a burn, execute() invokes neither the approve nor the burn operation.
C38_NoReburnAfterCancel ==
    [][ \A i \in Slots :
          ( /\ used.cancels > 0
            /\ BurnHash(state) # NoHash
            /\ procs[i].pc = "call"
            /\ procs'[i].pc = "adapter" )
          => procs'[i].op \notin {"approveUSDC", "burnUSDC",
                                  "approveAndBurnUSDCUsingSmartAccount"} ]_vars

\* C39: when execute() has returned on a session that is not completed and
\* no save is in flight any more, the stored record is the state in memory.
C39_StoreConverges ==
    ( /\ alive
      /\ \A i \in Slots : procs[i].pc = "idle"
      /\ procs["a"].outcome \in {"ok", "caught"}
      /\ state.step # "COMPLETED"
      /\ pending = {} )
    => store = state

====
